---- MODULE Spec2Model ----
(***************************************************************************)
(* A model of the `secrets` command line utility (src/src/main.rs): the    *)
(* predicate display_secret and the run of main, from argument parsing     *)
(* through the listing of the secrets of a namespace to the fallback       *)
(* diagnostic about the namespace.                                         *)
(*                                                                         *)
(* Strings that are searched or that come from the command line (secret    *)
(* names, queries, namespace names) are sequences of one-character         *)
(* strings, and so is every word of the command line; strings that are     *)
(* only compared (types, keys) are TLA+ strings; secret values are         *)
(* sequences of bytes (0..255).  An                                        *)
(* Option<T> is None or Some(x).                                           *)
(***************************************************************************)
EXTENDS Integers, Sequences, FiniteSets, TLC

VARIABLES
    args,           \* the command line after the program name, word by word
    config,         \* Config, once parsed (main.rs:41)
    pc,             \* the position of main
    secrets,        \* the items of the ObjectList<Secret> being iterated (main.rs:47)
    idx,            \* the position of that iteration (1-based)
    display,        \* `display` (main.rs:48)
    entry,          \* the position of data.iter() in the current secret (main.rs:55)
    found_secrets,  \* `found_secrets` (main.rs:45)
    namespaces,     \* the items of the ObjectList<Namespace> (main.rs:73)
    nidx,           \* the position of that iteration (1-based)
    found,          \* `found` (main.rs:72)
    stdout,         \* the lines printed so far
    stderr,         \* what the process reported on its way out
    exit,           \* "running", or how the process ended
    calls           \* the external calls made so far and their results, in order

vars == <<args, config, pc, secrets, idx, display, entry, found_secrets,
          namespaces, nidx, found, stdout, stderr, exit, calls>>

----------------------------------------------------------------------------
(* Bounds of the model.                                                    *)

MaxSecrets == 2
MaxNamespaces == 2
MaxNameLen == 3
MaxQueryLen == 2

----------------------------------------------------------------------------
(* Option<T>                                                               *)

None == [some |-> FALSE]
Some(x) == [some |-> TRUE, val |-> x]

(* All sequences over S of length lo..hi.                                  *)
SeqsOf(S, lo, hi) == UNION {[1..n -> S] : n \in lo..hi}

----------------------------------------------------------------------------
(* str::contains(&String): plain substring search, byte for byte.          *)

(* A search that ignores case, which str::contains does not. *)
Lower(ch) == IF ch = "A" THEN "a" ELSE IF ch = "B" THEN "b" ELSE ch

contains_ignore_case(haystack, needle) ==
    \E i \in 1..(Len(haystack) - Len(needle) + 1) :
        \A j \in 1..Len(needle) : Lower(haystack[i + j - 1]) = Lower(needle[j])

contains(haystack, needle) ==
    \E i \in 1..(Len(haystack) - Len(needle) + 1) :
        \A j \in 1..Len(needle) : haystack[i + j - 1] = needle[j]

----------------------------------------------------------------------------
(* display_secret (main.rs:21-37).  The result is "true", "false", or the  *)
(* source line of the Option::unwrap() that panics.                        *)

Panic22 == "panic:22"
Panic29 == "panic:29"

(* main.rs:23-33, the body of the `if`. *)
query_gate(c, s) ==
    IF ~c.query.some THEN "true"
    ELSE IF ~s.name.some THEN Panic29
    ELSE IF contains(s.name.val, c.query.val) THEN "true"
    ELSE "false"

(* display_secret, had it let a matching query through before the type. *)
display_secret_query_first(c, s) ==
    IF c.query.some /\ s.name.some /\ contains(s.name.val, c.query.val) THEN "true"
    ELSE IF c.show_all THEN query_gate(c, s)
    ELSE IF ~s.type_.some THEN Panic22
    ELSE IF s.type_.val = "Opaque" THEN query_gate(c, s)
    ELSE "false"

display_secret(c, s) ==
    IF c.show_all THEN query_gate(c, s)
    ELSE IF ~s.type_.some THEN Panic22
    ELSE IF s.type_.val = "Opaque" THEN query_gate(c, s)
    ELSE "false"

----------------------------------------------------------------------------
(* std::str::from_utf8 (main.rs:56): Ok exactly for well-formed UTF-8.     *)

(* The length of the encoded character that starts with byte `first`, 0    *)
(* when no character starts with it.                                       *)
utf8_char_width(first) ==
    IF first < 128 THEN 1
    ELSE IF first >= 194 /\ first <= 223 THEN 2
    ELSE IF first >= 224 /\ first <= 239 THEN 3
    ELSE IF first >= 240 /\ first <= 244 THEN 4
    ELSE 0

is_continuation(b) == b >= 128 /\ b <= 191

(* The second byte of a 3- or 4-byte character, which excludes overlong    *)
(* encodings, surrogates and code points above U+10FFFF.                   *)
second_byte_ok(first, next) ==
    \/ first = 224 /\ next >= 160 /\ next <= 191
    \/ first >= 225 /\ first <= 236 /\ is_continuation(next)
    \/ first = 237 /\ next >= 128 /\ next <= 159
    \/ first >= 238 /\ first <= 239 /\ is_continuation(next)
    \/ first = 240 /\ next >= 144 /\ next <= 191
    \/ first >= 241 /\ first <= 243 /\ is_continuation(next)
    \/ first = 244 /\ next >= 128 /\ next <= 143

RECURSIVE utf8_valid_from(_, _)
utf8_valid_from(bytes, i) ==
    IF i > Len(bytes) THEN TRUE
    ELSE LET w == utf8_char_width(bytes[i]) IN
         /\ w # 0
         /\ i + w - 1 <= Len(bytes)
         /\ w = 2 => is_continuation(bytes[i + 1])
         /\ w >= 3 => second_byte_ok(bytes[i], bytes[i + 1])
         /\ \A j \in (i + 2)..(i + w - 1) : is_continuation(bytes[j])
         /\ utf8_valid_from(bytes, i + w)

from_utf8_is_ok(bytes) == utf8_valid_from(bytes, 1)

----------------------------------------------------------------------------
(* The lines the program writes to standard output.  `color` is the style  *)
(* colorful applies to the name or the key; `text` is the decoded value.   *)

Line(kind, name, key, text, ns, color) ==
    [kind |-> kind, name |-> name, key |-> key, text |-> text, ns |-> ns,
     color |-> color]

(* main.rs:52   println!("{}:", name.light_blue()) *)
HeaderLine(name) == Line("header", name, "", <<>>, <<>>, "light_blue")
(* main.rs:58   println!("  {}: {}", key.light_green(), bstring) *)
KeyLine(key, text) == Line("key", <<>>, key, text, <<>>, "light_green")
(* main.rs:59   println!("  {}: <unable to decode UTF-8>", key.light_green()) *)
PlaceholderLine(key) == Line("undecodable", <<>>, key, <<>>, <<>>, "light_green")
(* main.rs:64   println!() *)
BlankLine == Line("blank", <<>>, "", <<>>, <<>>, "")
(* main.rs:82 *)
NoSecretsLine(ns) == Line("no_secrets", <<>>, "", <<>>, ns, "")
(* main.rs:84-87 *)
NoNamespaceLine(ns) == Line("no_namespace", <<>>, "", <<>>, ns, "")
(* main.rs:41   the help text clap writes for -h/--help (main.rs:11-19) *)
HelpLine == Line("help", <<>>, "", <<>>, <<>>, "")
(* main.rs:41   "secrets <version>", which clap writes for -V/--version *)
VersionLine == Line("version", <<>>, "", <<>>, <<>>, "")

(* main.rs:56-60, the line of one data entry. *)
entry_line(key, value) ==
    IF from_utf8_is_ok(value) THEN KeyLine(key, value) ELSE PlaceholderLine(key)

----------------------------------------------------------------------------
(* Secret.data is an Option<BTreeMap<String, ByteString>>: a map iterates  *)
(* in the order of its keys.  KeyOrder lists the keys of the model in      *)
(* that (lexicographic) order.                                             *)

KeyOrder == <<"password", "username">>

(* data.iter() (main.rs:55): the (key, value) pairs in key order. *)
data_iter(map) ==
    LET keys == SelectSeq(KeyOrder, LAMBDA k : k \in DOMAIN map)
    IN  [i \in 1..Len(keys) |-> <<keys[i], map[keys[i]]>>]

(* The entries main iterates for secret s: none when data is None (main.rs:54). *)
entries_of(s) == IF s.data.some THEN data_iter(s.data.val) ELSE <<>>

----------------------------------------------------------------------------
(* The inputs of the model.                                                *)

Alphabet == {"a", "b", "A"}
TypeUniverse == {None, Some("Opaque"), Some("kubernetes.io/tls")}
EmptyMap == [k \in {} |-> <<>>]

(* "hi", U+00E9, a stray 0xFF, a 2-byte character cut short *)
DataUniverse ==
    { None,
      Some(EmptyMap),
      Some([k \in {"password", "username"} |->
                IF k = "password" THEN <<255>> ELSE <<104, 105>>]),
      Some([k \in {"password"} |-> <<195, 169>>]),
      Some([k \in {"username"} |-> <<195>>]) }

SecretUniverse ==
    [name : {None, Some(<<"a", "b">>)}, type_ : TypeUniverse, data : DataUniverse]

QueryUniverse == {None, Some(<<>>), Some(<<"a">>), Some(<<"A">>)}

(* The namespace asked for, and one whose name starts with it. *)
Ns == <<"n", "s">>
Ns2 == <<"n", "s", "2">>

(* The names Config declares (main.rs:14-15) and those of the help and the *)
(* version, which clap adds (main.rs:12): after "-" a character, after     *)
(* "--" a name. *)
ShortShowAll == "a"
ShortHelp == "h"
ShortVersion == "V"
LongShowAll == <<"s", "h", "o", "w", "-", "a", "l", "l">>
LongHelp == <<"h", "e", "l", "p">>
LongVersion == <<"v", "e", "r", "s", "i", "o", "n">>

(* A word of the command line as it is written: short options, a long      *)
(* option, and the word that ends the options. *)
Short(cs) == <<"-">> \o cs
Long(name) == <<"-", "-">> \o name
Escape == <<"-", "-">>

(* The command line that gives these values, the flag first, in its short  *)
(* form. *)
CommandLine(show_all, namespace, query) ==
    (IF show_all THEN <<Short(<<ShortShowAll>>)>> ELSE <<>>)
        \o <<namespace>>
        \o (IF query.some THEN <<query.val>> ELSE <<>>)

(* The command lines of the model: every flag and query with the           *)
(* namespace; the flag in its long form and after the namespace; values    *)
(* after "--", written as options; and the lines that end the run in       *)
(* Config::parse(): no words, no namespace, the help and the version,      *)
(* alone and among short options, an unknown option, a third value, the    *)
(* flag twice.                                                             *)
ArgsUniverse ==
    { CommandLine(a, Ns, q) : a \in BOOLEAN, q \in QueryUniverse }
    \cup { <<Long(LongShowAll), Ns>>,
           <<Ns, Short(<<"a">>)>>,
           <<Escape, Ns>>,
           <<Short(<<"a">>), Escape, Ns, Short(<<"a">>)>>,
           <<Escape, Long(LongHelp)>>,
           <<>>,
           <<Escape>>,
           <<Short(<<"a">>)>>,
           <<Long(LongHelp)>>,
           <<Short(<<"h">>)>>,
           <<Long(LongVersion)>>,
           <<Short(<<"V">>)>>,
           <<Ns, Long(LongHelp)>>,
           <<Ns, Short(<<"V">>)>>,
           <<Short(<<"a", "h">>)>>,
           <<Short(<<"h", "x">>)>>,
           <<Short(<<"x", "h">>)>>,
           <<Short(<<"a", "V">>), Ns>>,
           <<Short(<<"a", "a">>), Ns>>,
           <<Short(<<"x">>), Ns>>,
           <<Long(<<"i", "n", "v", "a", "l", "i", "d">>), Ns>>,
           <<Ns, <<"a">>, <<"b">>>>,
           <<Ns, <<"a">>, Escape, <<"b">>>>,
           <<Short(<<"a">>), Short(<<"a">>), Ns>>,
           <<Short(<<"x">>), Long(LongHelp)>>,
           <<Long(LongHelp), Short(<<"x">>)>> }

NamespaceUniverse == [name : {None, Some(Ns), Some(Ns2)}]

(* The inputs of display_secret taken alone: every name and query over the *)
(* alphabet up to the bounds, and a type that differs from "Opaque" in     *)
(* case only.                                                              *)
FilterSecretUniverse ==
    [name : {None} \cup {Some(n) : n \in SeqsOf(Alphabet, 0, MaxNameLen)},
     type_ : TypeUniverse \cup {Some("opaque")},
     data : {None}]

FilterConfigUniverse ==
    [show_all : BOOLEAN, namespace : {Ns},
     query : {None} \cup {Some(q) : q \in SeqsOf(Alphabet, 0, MaxQueryLen)}]

NoConfig == [show_all |-> FALSE, namespace |-> <<>>, query |-> None]

----------------------------------------------------------------------------
(* The command line parser clap derives from Config (main.rs:11-19): the   *)
(* flag -a/--show-all, the required value namespace, the optional value    *)
(* query, and the options -h/--help and -V/--version that the attribute    *)
(* `version` and clap itself add.                                          *)

(* What try_parse_from returns: Ok(config), or an Err of one of clap's     *)
(* kinds. *)
Parsed(show_all, namespace, query) ==
    [kind |-> "Ok",
     config |-> [show_all |-> show_all, namespace |-> namespace.val,
                 query |-> query]]
DisplayHelp == [kind |-> "DisplayHelp", config |-> NoConfig]
DisplayVersion == [kind |-> "DisplayVersion", config |-> NoConfig]
UsageError == [kind |-> "UsageError", config |-> NoConfig]

(* How clap reads a word that stands before any "--": "--" itself ends the *)
(* options, "--name" is a long option, "-" and more (not a second "-") is  *)
(* a group of short options, anything else ("-" alone and the empty word   *)
(* included) is a value. *)
is_escape(w) == w = Escape
is_long(w) == Len(w) > 2 /\ w[1] = "-" /\ w[2] = "-"
is_short(w) == Len(w) > 1 /\ w[1] = "-" /\ w[2] # "-"

(* The flag is taken once: a second time is an error. *)
set_show_all(show_all) ==
    IF show_all THEN UsageError
    ELSE [kind |-> "Ok",
          config |-> [show_all |-> TRUE, namespace |-> <<>>, query |-> None]]

(* A long option: the name must be one of the three, to the letter; they   *)
(* take no value, so that "--name=value" is an error like any other name.  *)
parse_long_arg(w, show_all) ==
    LET name == SubSeq(w, 3, Len(w)) IN
    IF name = LongHelp THEN DisplayHelp
    ELSE IF name = LongVersion THEN DisplayVersion
    ELSE IF name = LongShowAll THEN set_show_all(show_all)
    ELSE UsageError

(* A group of short options, from character k on, one after the other:    *)
(* the first h or V displays the help or the version, a character that is  *)
(* not declared is an error, and so is a second a. *)
RECURSIVE parse_short_arg(_, _, _)
parse_short_arg(w, k, show_all) ==
    IF k > Len(w)
    THEN [kind |-> "Ok",
          config |-> [show_all |-> show_all, namespace |-> <<>>,
                      query |-> None]]
    ELSE IF w[k] = ShortHelp THEN DisplayHelp
    ELSE IF w[k] = ShortVersion THEN DisplayVersion
    ELSE IF w[k] = ShortShowAll
         THEN IF show_all THEN UsageError
              ELSE parse_short_arg(w, k + 1, TRUE)
    ELSE UsageError

(* The words are taken from left to right, and the first that asks for     *)
(* the help or the version, or that cannot be taken, decides: an option    *)
(* Config does not declare, the flag a second time, a third value.  After  *)
(* "--" (`trailing`) every word is a value.  The namespace is required     *)
(* once every word is taken. *)
RECURSIVE parse_words(_, _, _, _, _, _)
parse_words(argv, i, trailing, show_all, namespace, query) ==
    IF i > Len(argv)
    THEN IF namespace.some THEN Parsed(show_all, namespace, query)
         ELSE UsageError
    ELSE LET w == argv[i] IN
         IF ~trailing /\ is_escape(w)
         THEN parse_words(argv, i + 1, TRUE, show_all, namespace, query)
         ELSE IF ~trailing /\ (is_long(w) \/ is_short(w))
         THEN LET r == IF is_long(w) THEN parse_long_arg(w, show_all)
                       ELSE parse_short_arg(w, 2, show_all) IN
              IF r.kind = "Ok"
              THEN parse_words(argv, i + 1, trailing, r.config.show_all,
                               namespace, query)
              ELSE r
         ELSE IF ~namespace.some
              THEN parse_words(argv, i + 1, trailing, show_all, Some(w), query)
         ELSE IF ~query.some
              THEN parse_words(argv, i + 1, trailing, show_all, namespace,
                               Some(w))
         ELSE UsageError

(* main.rs:118  Config::try_parse_from(args), the program name left out *)
try_parse_from(argv) == parse_words(argv, 1, FALSE, FALSE, None, None)

----------------------------------------------------------------------------
(* How the process ends, and its exit status: 0 for Ok(()) (main.rs:91),   *)
(* 1 for an Err returned by main, 2 for clap's usage error, 0 when clap    *)
(* displayed the help or the version, 101 for a panic.                     *)

ExitStatus(e) ==
    IF e = "ok" THEN 0
    ELSE IF e = "displayed" THEN 0
    ELSE IF e = "error" THEN 1
    ELSE IF e = "usage" THEN 2
    ELSE IF e = "panic" THEN 101
    ELSE -1

Init ==
    /\ args \in ArgsUniverse
    /\ config = NoConfig
    /\ pc = "parse"
    /\ secrets = <<>>
    /\ idx = 1
    /\ display = "unset"
    /\ entry = 1
    /\ found_secrets = 0
    /\ namespaces = <<>>
    /\ nidx = 1
    /\ found = FALSE
    /\ stdout = <<>>
    /\ stderr = ""
    /\ exit = "running"
    /\ calls = <<>>

(* An external call and whether it succeeded. *)
Call(name, ok) == [name |-> name, ok |-> ok]

(* The process ends: how, and what it reports. *)
Terminate(how, report) ==
    /\ pc' = "exit"
    /\ exit' = how
    /\ stderr' = report

----------------------------------------------------------------------------
(* main (main.rs:40-92), one action per step.                              *)

(* main.rs:41  Config::parse(): on an Err of try_parse_from clap ends the  *)
(* process inside the call: the help or the version goes to standard       *)
(* output and the status is 0, any other error goes to standard error and  *)
(* the status is 2. *)
Parse ==
    /\ pc = "parse"
    /\ LET r == try_parse_from(args) IN
        IF r.kind = "Ok"
        THEN /\ config' = r.config
             /\ pc' = "client"
             /\ UNCHANGED <<exit, stderr, stdout>>
        ELSE IF r.kind = "DisplayHelp"
        THEN /\ stdout' = Append(stdout, HelpLine)
             /\ Terminate("displayed", "")
             /\ UNCHANGED config
        ELSE IF r.kind = "DisplayVersion"
        THEN /\ stdout' = Append(stdout, VersionLine)
             /\ Terminate("displayed", "")
             /\ UNCHANGED config
        ELSE /\ Terminate("usage", "usage")
             /\ UNCHANGED <<config, stdout>>
    /\ UNCHANGED <<args, secrets, idx, display, entry, found_secrets,
                   namespaces, nidx, found, calls>>

(* main.rs:43-45  Client::try_default().await? *)
ConnectSecrets ==
    /\ pc = "client"
    /\ \E ok \in BOOLEAN :
        /\ calls' = Append(calls, Call("client", ok))
        /\ IF ok
           THEN /\ pc' = "list_secrets"
                /\ UNCHANGED <<exit, stderr>>
           ELSE Terminate("error", "Error")
    /\ UNCHANGED <<args, config, secrets, idx, display, entry, found_secrets,
                   namespaces, nidx, found, stdout>>

(* What secrets.list(..).await may return: Err, or Ok with the items. *)
ListSecretsResults ==
    {[ok |-> FALSE, items |-> <<>>]}
        \cup {[ok |-> TRUE, items |-> l] : l \in SeqsOf(SecretUniverse, 0, MaxSecrets)}

(* The call, had a failure been retried (twice at most). *)
ListSecrets_retry ==
    /\ pc = "list_secrets"
    /\ \E r \in ListSecretsResults :
        /\ calls' = Append(calls, Call("list_secrets", r.ok))
        /\ IF r.ok
           THEN /\ secrets' = r.items
                /\ idx' = 1
                /\ pc' = "loop"
                /\ UNCHANGED <<exit, stderr>>
           ELSE IF Len(calls) < 3
           THEN UNCHANGED <<secrets, idx, pc, exit, stderr>>
           ELSE /\ Terminate("error", "Error")
                /\ UNCHANGED <<secrets, idx>>
    /\ UNCHANGED <<args, config, display, entry, found_secrets,
                   namespaces, nidx, found, stdout>>

(* main.rs:47  secrets.list(&Default::default()).await? *)
ListSecrets ==
    /\ pc = "list_secrets"
    /\ \E r \in ListSecretsResults :
        /\ calls' = Append(calls, Call("list_secrets", r.ok))
        /\ IF r.ok
           THEN /\ secrets' = r.items
                /\ idx' = 1
                /\ pc' = "loop"
                /\ UNCHANGED <<exit, stderr>>
           ELSE /\ Terminate("error", "Error")
                /\ UNCHANGED <<secrets, idx>>
    /\ UNCHANGED <<args, config, display, entry, found_secrets,
                   namespaces, nidx, found, stdout>>

(* main.rs:47-48  the next secret of the list, and display_secret on it. *)
Filter ==
    /\ pc = "loop"
    /\ idx <= Len(secrets)
    /\ LET r == display_secret(config, secrets[idx]) IN
        IF r \in {"true", "false"}
        THEN /\ display' = r
             /\ pc' = "branch"
             /\ UNCHANGED <<exit, stderr>>
        ELSE /\ Terminate("panic", r)
             /\ UNCHANGED display
    /\ UNCHANGED <<args, config, secrets, idx, entry, found_secrets,
                   namespaces, nidx, found, stdout, calls>>

(* main.rs:49-51  if !display { continue; } *)
Skip ==
    /\ pc = "branch"
    /\ display = "false"
    /\ idx' = idx + 1
    /\ pc' = "loop"
    /\ UNCHANGED <<args, config, secrets, display, entry, found_secrets,
                   namespaces, nidx, found, stdout, stderr, exit, calls>>

Panic52 == "panic:52"

(* main.rs:52  println!("{}:", s.metadata.name.unwrap().light_blue()) *)
PrintHeader ==
    /\ pc = "branch"
    /\ display = "true"
    /\ IF secrets[idx].name.some
       THEN /\ stdout' = Append(stdout, HeaderLine(secrets[idx].name.val))
            /\ entry' = 1
            /\ pc' = "data"
            /\ UNCHANGED <<exit, stderr>>
       ELSE /\ Terminate("panic", Panic52)
            /\ UNCHANGED <<stdout, entry>>
    /\ UNCHANGED <<args, config, secrets, idx, display, found_secrets,
                   namespaces, nidx, found, calls>>

(* The turn, had it unwrapped the result of from_utf8. *)
RenderEntry_unwrap ==
    /\ pc = "data"
    /\ entry <= Len(entries_of(secrets[idx]))
    /\ LET kv == entries_of(secrets[idx])[entry] IN
        IF from_utf8_is_ok(kv[2])
        THEN /\ stdout' = Append(stdout, KeyLine(kv[1], kv[2]))
             /\ found_secrets' = found_secrets + 1
             /\ entry' = entry + 1
             /\ UNCHANGED <<pc, exit, stderr>>
        ELSE /\ Terminate("panic", "panic:56")
             /\ UNCHANGED <<stdout, found_secrets, entry>>
    /\ UNCHANGED <<args, config, secrets, idx, display,
                   namespaces, nidx, found, calls>>

(* main.rs:54-62  one turn of `for (key, value) in data.iter()`. *)
RenderEntry ==
    /\ pc = "data"
    /\ entry <= Len(entries_of(secrets[idx]))
    /\ LET kv == entries_of(secrets[idx])[entry] IN
        stdout' = Append(stdout, entry_line(kv[1], kv[2]))
    /\ found_secrets' = found_secrets + 1
    /\ entry' = entry + 1
    /\ UNCHANGED <<args, config, pc, secrets, idx, display,
                   namespaces, nidx, found, stderr, exit, calls>>

(* The end of a secret, had the blank line been printed after keys only. *)
EndSecret_blank_after_keys ==
    /\ pc = "data"
    /\ entry > Len(entries_of(secrets[idx]))
    /\ stdout' = IF entry > 1 THEN Append(stdout, BlankLine) ELSE stdout
    /\ idx' = idx + 1
    /\ pc' = "loop"
    /\ UNCHANGED <<args, config, secrets, display, entry, found_secrets,
                   namespaces, nidx, found, stderr, exit, calls>>

(* main.rs:63-65  the data is exhausted (or absent): println!() and on to  *)
(* the next secret. *)
EndSecret ==
    /\ pc = "data"
    /\ entry > Len(entries_of(secrets[idx]))
    /\ stdout' = Append(stdout, BlankLine)
    /\ idx' = idx + 1
    /\ pc' = "loop"
    /\ UNCHANGED <<args, config, secrets, display, entry, found_secrets,
                   namespaces, nidx, found, stderr, exit, calls>>

(* The test, had it been off by one. *)
nothing_found_off_by_one(n) == n <= 1

(* main.rs:69  found_secrets == 0 *)
nothing_found(n) == n = 0

(* main.rs:65-69, 91  the list is exhausted: Ok(()) unless nothing was found. *)
CheckTotal ==
    /\ pc = "loop"
    /\ idx > Len(secrets)
    /\ IF nothing_found(found_secrets)
       THEN /\ pc' = "client2"
            /\ UNCHANGED <<exit, stderr>>
       ELSE Terminate("ok", "")
    /\ UNCHANGED <<args, config, secrets, idx, display, entry, found_secrets,
                   namespaces, nidx, found, stdout, calls>>

(* main.rs:70-72  Client::try_default().await?; found = false *)
ConnectNamespaces ==
    /\ pc = "client2"
    /\ \E ok \in BOOLEAN :
        /\ calls' = Append(calls, Call("client", ok))
        /\ IF ok
           THEN /\ pc' = "list_namespaces"
                /\ found' = FALSE
                /\ UNCHANGED <<exit, stderr>>
           ELSE /\ Terminate("error", "Error")
                /\ UNCHANGED found
    /\ UNCHANGED <<args, config, secrets, idx, display, entry, found_secrets,
                   namespaces, nidx, stdout>>

ListNamespacesResults ==
    {[ok |-> FALSE, items |-> <<>>]}
        \cup {[ok |-> TRUE, items |-> l] : l \in SeqsOf(NamespaceUniverse, 0, MaxNamespaces)}

(* The call, had a failure been taken for an empty list. *)
ListNamespaces_unwrap_or_default ==
    /\ pc = "list_namespaces"
    /\ \E r \in ListNamespacesResults :
        /\ calls' = Append(calls, Call("list_namespaces", r.ok))
        /\ namespaces' = r.items
        /\ nidx' = 1
        /\ pc' = "scan"
        /\ UNCHANGED <<exit, stderr>>
    /\ UNCHANGED <<args, config, secrets, idx, display, entry, found_secrets,
                   found, stdout>>

(* main.rs:73  namespaces.list(&Default::default()).await? *)
ListNamespaces ==
    /\ pc = "list_namespaces"
    /\ \E r \in ListNamespacesResults :
        /\ calls' = Append(calls, Call("list_namespaces", r.ok))
        /\ IF r.ok
           THEN /\ namespaces' = r.items
                /\ nidx' = 1
                /\ pc' = "scan"
                /\ UNCHANGED <<exit, stderr>>
           ELSE /\ Terminate("error", "Error")
                /\ UNCHANGED <<namespaces, nidx>>
    /\ UNCHANGED <<args, config, secrets, idx, display, entry, found_secrets,
                   found, stdout>>

Panic74 == "panic:74"

(* The comparison, had it been name.starts_with(target). *)
same_namespace_starts_with(name, target) ==
    /\ Len(target) <= Len(name)
    /\ \A i \in 1..Len(target) : name[i] = target[i]

(* main.rs:75  name == config.namespace *)
same_namespace(name, target) == name = target

(* main.rs:73-79  one turn of the scan of the namespaces. *)
ScanNamespace ==
    /\ pc = "scan"
    /\ nidx <= Len(namespaces)
    /\ IF ~namespaces[nidx].name.some
       THEN /\ Terminate("panic", Panic74)
            /\ UNCHANGED <<found, nidx>>
       ELSE IF same_namespace(namespaces[nidx].name.val, config.namespace)
       THEN /\ found' = TRUE
            /\ pc' = "report"
            /\ UNCHANGED <<nidx, exit, stderr>>
       ELSE /\ nidx' = nidx + 1
            /\ UNCHANGED <<found, pc, exit, stderr>>
    /\ UNCHANGED <<args, config, secrets, idx, display, entry, found_secrets,
                   namespaces, stdout, calls>>

(* main.rs:73, 79  the namespaces are exhausted. *)
ScanEnd ==
    /\ pc = "scan"
    /\ nidx > Len(namespaces)
    /\ pc' = "report"
    /\ UNCHANGED <<args, config, secrets, idx, display, entry, found_secrets,
                   namespaces, nidx, found, stdout, stderr, exit, calls>>

(* main.rs:81-88  the message about the namespace. *)
diagnostic_line(f, ns) == IF f THEN NoSecretsLine(ns) ELSE NoNamespaceLine(ns)

(* The report, had a namespace that does not exist been made an error. *)
Report_missing_namespace_is_error ==
    /\ pc = "report"
    /\ stdout' = Append(stdout, diagnostic_line(found, config.namespace))
    /\ IF found THEN Terminate("ok", "") ELSE Terminate("error", "Error")
    /\ UNCHANGED <<args, config, secrets, idx, display, entry, found_secrets,
                   namespaces, nidx, found, calls>>

(* main.rs:81-91  print the message; Ok(()). *)
Report ==
    /\ pc = "report"
    /\ stdout' = Append(stdout, diagnostic_line(found, config.namespace))
    /\ Terminate("ok", "")
    /\ UNCHANGED <<args, config, secrets, idx, display, entry, found_secrets,
                   namespaces, nidx, found, calls>>

Next ==
    \/ Parse
    \/ ConnectSecrets
    \/ ListSecrets
    \/ Filter
    \/ Skip
    \/ PrintHeader
    \/ RenderEntry
    \/ EndSecret
    \/ CheckTotal
    \/ ConnectNamespaces
    \/ ListNamespaces
    \/ ScanNamespace
    \/ ScanEnd
    \/ Report

Spec == Init /\ [][Next]_vars

----------------------------------------------------------------------------
(* display_secret taken alone: main stands at the top of its loop with one *)
(* secret to look at, for every config and secret of the filter's          *)
(* universes, and takes the step that calls display_secret.                *)

FilterInit ==
    /\ config \in FilterConfigUniverse
    /\ args = CommandLine(config.show_all, config.namespace, config.query)
    /\ pc = "loop"
    /\ \E s \in FilterSecretUniverse : secrets = <<s>>
    /\ idx = 1
    /\ display = "unset"
    /\ entry = 1
    /\ found_secrets = 0
    /\ namespaces = <<>>
    /\ nidx = 1
    /\ found = FALSE
    /\ stdout = <<>>
    /\ stderr = ""
    /\ exit = "running"
    /\ calls = <<Call("client", TRUE), Call("list_secrets", TRUE)>>

FilterNext == Filter

FilterSpec == FilterInit /\ [][FilterNext]_vars

----------------------------------------------------------------------------
(* What the claims speak of.                                               *)

(* The secret main is looking at. *)
cur == secrets[idx]

(* display_secret has just been called on cur: it returned, or it panicked. *)
Filtered == pc = "branch" \/ (pc = "exit" /\ stderr \in {Panic22, Panic29})

(* What that call came to: "true", "false", or the panic. *)
FilterOutcome == IF pc = "branch" THEN display ELSE stderr

(* needle occurs in haystack as a contiguous run of equal characters. *)
IsSubstring(haystack, needle) ==
    \E k \in 0..(Len(haystack) - Len(needle)) :
        SubSeq(haystack, k + 1, k + Len(needle)) = needle

PassesTypeGate(c, s) == c.show_all \/ (s.type_.some /\ s.type_.val = "Opaque")

(* C1: a secret whose type is present and is not "Opaque" is rejected when *)
(* show_all is false, whatever the query (absent, empty, or a substring of *)
(* its name).                                                              *)
C1_TypeGate ==
    (Filtered /\ ~config.show_all /\ cur.type_.some /\ cur.type_.val # "Opaque")
        => FilterOutcome = "false"

(* C1's case: a type-gated-out secret whose name contains the query. *)
C1_Witness ==
    /\ Filtered
    /\ ~config.show_all
    /\ cur.type_ = Some("kubernetes.io/tls")
    /\ cur.name.some /\ config.query.some
    /\ Len(config.query.val) > 0
    /\ IsSubstring(cur.name.val, config.query.val)
    /\ FilterOutcome = "false"

(* C2: a secret with type and name present that passes the type gate is    *)
(* approved if and only if the query is absent or occurs in its name as a  *)
(* case-sensitive plain substring.                                         *)
C2_QueryGate ==
    (Filtered /\ cur.type_.some /\ cur.name.some /\ PassesTypeGate(config, cur))
        => /\ FilterOutcome \in {"true", "false"}
           /\ FilterOutcome = "true"
                <=> (~config.query.some \/ IsSubstring(cur.name.val, config.query.val))

(* C2's case: an infix match is approved, under show_all, for a secret     *)
(* that is not Opaque.                                                     *)
C2_Witness ==
    /\ Filtered
    /\ config.show_all
    /\ cur.type_ = Some("kubernetes.io/tls")
    /\ cur.name = Some(<<"b", "a", "b">>)
    /\ config.query = Some(<<"a">>)
    /\ FilterOutcome = "true"

(* C3: called with an empty query, display_secret comes to what it comes   *)
(* to with no query, for every config and every secret.                    *)
C3_EmptyQueryAsAbsent ==
    (Filtered /\ config.query = Some(<<>>))
        => FilterOutcome = display_secret([config EXCEPT !.query = None], cur)

----------------------------------------------------------------------------
(* The run as a whole.                                                     *)

LinesOfKind(out, kinds) == SelectSeq(out, LAMBDA l : l.kind \in kinds)

(* The diagnostic lines printed so far, and the lines of the secrets. *)
DiagnosticLines == LinesOfKind(stdout, {"no_secrets", "no_namespace"})
SecretLines == LinesOfKind(stdout, {"header", "key", "undecodable", "blank"})

(* The key/value entries rendered so far, placeholders included. *)
RenderedEntries == Len(LinesOfKind(stdout, {"key", "undecodable"}))

(* C4: a fetched secret whose type is missing makes the run end in a local *)
(* error, for every config: main never gets past it, and never approves    *)
(* it.                                                                     *)
C4_MissingTypeIsError ==
    \A i \in 1..Len(secrets) :
        ~secrets[i].type_.some
            => /\ idx <= i
               /\ idx = i => pc \in {"loop", "exit"}
               /\ (idx = i /\ pc = "exit") => exit = "panic"

(* C5: a fetched secret whose name is missing makes the run end in a local *)
(* error, whatever its type and the config: the filter never skips it and  *)
(* it is never rendered.                                                   *)
C5_MissingNameIsError ==
    \A i \in 1..Len(secrets) :
        ~secrets[i].name.some
            => /\ idx <= i
               /\ idx = i => pc \in {"loop", "branch", "exit"}
               /\ (idx = i /\ pc = "branch") => display = "true"
               /\ (idx = i /\ pc = "exit") => exit = "panic"

(* The secrets were fetched and every one of them is done. *)
SecretsExhausted ==
    /\ \E i \in DOMAIN calls : calls[i] = Call("list_secrets", TRUE)
    /\ idx > Len(secrets)

(* C6: the diagnostic is printed exactly when no key/value entry was       *)
(* rendered by the time the secrets are exhausted: a run that ends with    *)
(* status zero has printed exactly one diagnostic line if it exhausted the *)
(* secrets with none rendered and no diagnostic line otherwise, and no run *)
(* that rendered an entry prints one.                                      *)
C6_DiagnosticIffNothingRendered ==
    /\ Len(DiagnosticLines) <= 1
    /\ (pc = "exit" /\ ExitStatus(exit) = 0)
          => (Len(DiagnosticLines) = 1
                <=> (SecretsExhausted /\ RenderedEntries = 0))
    /\ exit = "ok" => SecretsExhausted
    /\ RenderedEntries > 0 => Len(DiagnosticLines) = 0
    /\ Len(DiagnosticLines) = 1 =>
          /\ idx > Len(secrets)
          /\ stdout[Len(stdout)] = DiagnosticLines[1]

(* C6's case: a secret was approved and its header printed, it had no      *)
(* entries, and the run ended well with the diagnostic.                    *)
C6_Witness ==
    /\ exit = "ok"
    /\ Len(LinesOfKind(stdout, {"header"})) > 0
    /\ RenderedEntries = 0
    /\ Len(DiagnosticLines) = 1

----------------------------------------------------------------------------
(* The diagnostic.                                                         *)

(* The list of the namespaces was fetched / could not be fetched. *)
NamespacesListed ==
    \E i \in DOMAIN calls : calls[i] = Call("list_namespaces", TRUE)
NamespacesListFailed ==
    \E i \in DOMAIN calls : calls[i] = Call("list_namespaces", FALSE)

(* Some returned namespace is named exactly as the target. *)
TargetListed ==
    \E i \in DOMAIN namespaces : namespaces[i].name = Some(config.namespace)

(* The first namespace named as the target, or past the end of the list. *)
FirstMatch ==
    IF TargetListed
    THEN CHOOSE i \in DOMAIN namespaces :
            /\ namespaces[i].name = Some(config.namespace)
            /\ \A j \in 1..(i - 1) : namespaces[j].name # Some(config.namespace)
    ELSE Len(namespaces) + 1

(* A namespace without a name stands before the first match. *)
NamelessBeforeMatch ==
    \E i \in DOMAIN namespaces : i < FirstMatch /\ ~namespaces[i].name.some

(* The message the claim expects. *)
ExpectedDiagnostic ==
    IF TargetListed THEN NoSecretsLine(config.namespace)
    ELSE NoNamespaceLine(config.namespace)

(* C7, as claimed: once the namespaces are fetched, the run prints exactly *)
(* one message, "No secrets found in namespace 'NS'" if and only if some   *)
(* returned namespace is named exactly as the target, and "Namespace 'NS'  *)
(* does not exist. ..." otherwise.                                         *)
C7_MessageIffListed ==
    (NamespacesListed /\ pc = "exit") => DiagnosticLines = <<ExpectedDiagnostic>>

(* C7, amended: that holds when the scan meets no namespace without a name *)
(* before it ends (at the first exact match, or at the end of the list);   *)
(* when it meets one, the run ends in a panic and prints neither message.  *)
C7_MessageIffListedAndNamed ==
    (NamespacesListed /\ pc = "exit") =>
        IF NamelessBeforeMatch
        THEN exit = "panic" /\ stderr = Panic74 /\ DiagnosticLines = <<>>
        ELSE exit = "ok" /\ DiagnosticLines = <<ExpectedDiagnostic>>

(* C7's case: the target stands second in the list, behind a namespace of  *)
(* another name, and the run reports that it found no secrets in it.       *)
C7_Witness ==
    /\ pc = "exit"
    /\ Len(namespaces) = 2
    /\ namespaces[1].name = Some(Ns2)
    /\ namespaces[2].name = Some(config.namespace)
    /\ DiagnosticLines = <<NoSecretsLine(config.namespace)>>

(* C8: when the call that lists the namespaces fails, the run ends in an   *)
(* error and prints no diagnostic message.                                 *)
C8_FailedListPrintsNothing ==
    NamespacesListFailed =>
        /\ pc = "exit"
        /\ exit = "error"
        /\ ExitStatus(exit) # 0
        /\ DiagnosticLines = <<>>

(* C8's case: the call failed, after a secret without entries was shown.   *)
C8_Witness ==
    /\ NamespacesListFailed
    /\ exit = "error"
    /\ Len(LinesOfKind(stdout, {"header"})) > 0

----------------------------------------------------------------------------
(* The rendering.                                                          *)

(* main is about to render an entry whose value is not valid UTF-8. *)
AtUndecodable ==
    /\ pc = "data"
    /\ entry <= Len(entries_of(cur))
    /\ ~from_utf8_is_ok(entries_of(cur)[entry][2])

(* C9: a value that is not valid UTF-8 is rendered as the line             *)
(* "  {key}: <unable to decode UTF-8>", and nothing else happens: main     *)
(* goes on to the next key of the same secret, the run does not end.       *)
C9_UndecodableIsLocal ==
    [][AtUndecodable =>
          /\ stdout' = Append(stdout, PlaceholderLine(entries_of(cur)[entry][1]))
          /\ pc' = "data"
          /\ entry' = entry + 1
          /\ exit' = "running"
          /\ <<secrets', idx'>> = <<secrets, idx>>]_vars

(* C9's case: a placeholder line, then the line of the next key of the     *)
(* same secret, then the block of the next secret, in a run that ended     *)
(* well.                                                                   *)
C9_Witness ==
    /\ exit = "ok"
    /\ \E i \in DOMAIN stdout :
        /\ stdout[i].kind = "undecodable"
        /\ i + 1 \in DOMAIN stdout /\ stdout[i + 1].kind = "key"
        /\ \E j \in DOMAIN stdout : j > i /\ stdout[j].kind = "header"

(* A secret with its type and its name. *)
WellFormed(s) == s.type_.some /\ s.name.some

(* The filter of the specification, on a well-formed secret. *)
ShouldDisplay(c, s) ==
    /\ PassesTypeGate(c, s)
    /\ ~c.query.some \/ IsSubstring(s.name.val, c.query.val)

(* The block of an approved secret: header, one line per key, blank line. *)
ExpectedKeyLine(kv) ==
    IF from_utf8_is_ok(kv[2]) THEN KeyLine(kv[1], kv[2]) ELSE PlaceholderLine(kv[1])

ExpectedBlock(s) ==
    <<HeaderLine(s.name.val)>>
        \o [i \in 1..Len(entries_of(s)) |-> ExpectedKeyLine(entries_of(s)[i])]
        \o <<BlankLine>>

RECURSIVE ExpectedOutput(_, _)
ExpectedOutput(c, ss) ==
    IF ss = <<>> THEN <<>>
    ELSE (IF ShouldDisplay(c, Head(ss)) THEN ExpectedBlock(Head(ss)) ELSE <<>>)
            \o ExpectedOutput(c, Tail(ss))

IsPrefix(a, b) == Len(a) <= Len(b) /\ SubSeq(b, 1, Len(a)) = a

(* C10: over well-formed secrets, what is printed for the secrets is the   *)
(* blocks of the approved ones, in the order of the list, a block being    *)
(* the header, one line per key and a blank line (also with no keys);      *)
(* rejected secrets print nothing and count nothing; the running total is  *)
(* the number of key lines printed, placeholders included.                 *)
C10_OutputIsBlocksOfApproved ==
    (\A i \in DOMAIN secrets : WellFormed(secrets[i])) =>
        /\ IsPrefix(SecretLines, ExpectedOutput(config, secrets))
        /\ idx > Len(secrets) => SecretLines = ExpectedOutput(config, secrets)
        /\ found_secrets = RenderedEntries

(* C10's case: a rejected secret, then an approved one with a placeholder  *)
(* line and a key line, all of the list done.                              *)
C10_Witness ==
    /\ Len(secrets) = 2
    /\ idx > Len(secrets)
    /\ WellFormed(secrets[1]) /\ WellFormed(secrets[2])
    /\ ~ShouldDisplay(config, secrets[1])
    /\ Len(entries_of(secrets[1])) > 0
    /\ ShouldDisplay(config, secrets[2])
    /\ Len(stdout) = 4
    /\ stdout[2].kind = "undecodable"
    /\ found_secrets = 2

----------------------------------------------------------------------------
(* The exit status.                                                        *)

(* Some external call of the run failed. *)
SomeCallFailed == \E i \in DOMAIN calls : ~calls[i].ok

(* main unwraps a missing field of secret s: in display_secret            *)
(* (main.rs:22, 29), or printing the header of an approved secret          *)
(* (main.rs:52). *)
UnwrapsMissingField(c, s) ==
    \/ display_secret(c, s) \notin {"true", "false"}
    \/ display_secret(c, s) = "true" /\ ~s.name.some

(* The run meets a missing field that it unwraps, among the secrets or     *)
(* among the namespaces it scans. *)
MeetsMissingField ==
    \/ \E i \in DOMAIN secrets : UnwrapsMissingField(config, secrets[i])
    \/ NamespacesListed /\ NamelessBeforeMatch

(* The command line gives a value, which stands for the namespace: a word  *)
(* after the first "--", or one before it that is not written as an        *)
(* option. *)
FirstEscape ==
    IF \E i \in DOMAIN args : args[i] = Escape
    THEN CHOOSE i \in DOMAIN args :
            args[i] = Escape /\ \A j \in 1..(i - 1) : args[j] # Escape
    ELSE Len(args) + 1
NamespaceGiven ==
    \E i \in DOMAIN args :
        \/ i > FirstEscape
        \/ i < FirstEscape /\ ~is_long(args[i]) /\ ~is_short(args[i])

(* What Config::try_parse_from makes of the command line: it is rejected,  *)
(* or it asks for the help or the version. *)
CommandLineRejected == try_parse_from(args).kind = "UsageError"
DisplayAsked ==
    try_parse_from(args).kind \in {"DisplayHelp", "DisplayVersion"}

(* C11, as claimed: the exit status is non-zero when an external call      *)
(* fails or the namespace argument is missing, and zero otherwise; a run   *)
(* that prints a diagnostic message ends with status zero.                 *)
C11_StatusIffCallFailedOrNoNamespace ==
    pc = "exit" =>
        /\ ExitStatus(exit) # 0 <=> (SomeCallFailed \/ ~NamespaceGiven)
        /\ DiagnosticLines # <<>> => ExitStatus(exit) = 0

(* C11, amended: the exit status is non-zero when an external call fails,  *)
(* when the command line is rejected (the namespace missing, an unknown    *)
(* option, a value too many, with no request for the help or the version   *)
(* before it), and when the run panics on a missing field (the name or     *)
(* type of a secret, the name of a namespace), and zero in every other     *)
(* case: a run that displays the help or the version ends with status      *)
(* zero whether the namespace is given or not, and so does a run that      *)
(* prints a diagnostic message.                                            *)
C11_StatusIffFailedOrPanicked ==
    pc = "exit" =>
        /\ ExitStatus(exit) >= 0
        /\ ExitStatus(exit) # 0
             <=> (SomeCallFailed \/ CommandLineRejected \/ MeetsMissingField)
        /\ exit = "usage" <=> CommandLineRejected
        /\ exit = "displayed" <=> DisplayAsked
        /\ DiagnosticLines # <<>> => ExitStatus(exit) = 0

(* C11's case: the run told that the namespace does not exist, and ended   *)
(* with status zero.                                                       *)
C11_Witness ==
    /\ pc = "exit"
    /\ DiagnosticLines = <<NoNamespaceLine(config.namespace)>>
    /\ ExitStatus(exit) = 0

----------------------------------------------------------------------------
(* The run as a state machine.                                             *)

(* How many times the external call `name` was made. *)
CallCount(name) == Cardinality({i \in DOMAIN calls : calls[i].name = name})

(* The stage of the run: 0 before the fetch (arguments, client), 1 the     *)
(* fetch, 2 filter/render, 3 diagnose, 4 ended. *)
Stage ==
    IF pc \in {"parse", "client"} THEN 0
    ELSE IF pc = "list_secrets" THEN 1
    ELSE IF pc \in {"loop", "branch", "data"} THEN 2
    ELSE IF pc \in {"client2", "list_namespaces", "scan", "report"} THEN 3
    ELSE 4

(* The run ended in one of its terminal states. *)
CompletedWithEntries ==
    exit = "ok" /\ RenderedEntries > 0 /\ DiagnosticLines = <<>>
CompletedWithDiagnostic ==
    exit = "ok" /\ RenderedEntries = 0 /\ Len(DiagnosticLines) = 1
Aborted == exit \in {"error", "usage", "panic"} /\ ExitStatus(exit) # 0
Displayed ==
    /\ exit = "displayed"
    /\ stdout \in {<<HelpLine>>, <<VersionLine>>}
    /\ calls = <<>>

(* The run ended before it came to the fetch: in Config::parse(), or for   *)
(* want of a client. *)
EndedBeforeFetch ==
    /\ pc = "exit"
    /\ \/ exit \in {"usage", "displayed"} /\ calls = <<>>
       \/ exit = "error" /\ calls = <<Call("client", FALSE)>>

(* The steps a secret takes at most: filter, header, its entries, blank    *)
(* line. *)
SecretSteps(s) == 3 + Len(entries_of(s))

RECURSIVE StepsFrom(_)
StepsFrom(i) ==
    IF i > Len(secrets) THEN 0 ELSE SecretSteps(secrets[i]) + StepsFrom(i + 1)

(* The steps the diagnose stage takes at most, the test of the total       *)
(* included. *)
DiagnoseSteps == 5 + MaxNamespaces

(* A bound on the steps the run has left, 0 when it has ended. *)
StepsLeft ==
    IF pc = "exit" THEN 0
    ELSE IF pc = "report" THEN 1
    ELSE IF pc = "scan" THEN 3 + Len(namespaces) - nidx
    ELSE IF pc = "list_namespaces" THEN 3 + MaxNamespaces
    ELSE IF pc = "client2" THEN 4 + MaxNamespaces
    ELSE IF pc = "loop" THEN DiagnoseSteps + StepsFrom(idx)
    ELSE IF pc = "branch" THEN DiagnoseSteps + StepsFrom(idx) - 1
    ELSE IF pc = "data"
         THEN DiagnoseSteps + StepsFrom(idx + 1) + 2 + Len(entries_of(cur)) - entry
    ELSE LET fetched == DiagnoseSteps + MaxSecrets * (3 + Len(KeyOrder)) IN
         IF pc = "list_secrets" THEN fetched + 1
         ELSE IF pc = "client" THEN fetched + 2
         ELSE fetched + 3

(* C12, as claimed, in what it says of the call that lists the secrets: it *)
(* is made exactly once in every run.                                      *)
C12_SecretsListedExactlyOnce ==
    pc = "exit" => CallCount("list_secrets") = 1

(* What holds of every state of the run. *)
C12_State ==
    /\ CallCount("list_secrets") <= 1
    /\ Stage \in {2, 3} => calls[2] = Call("list_secrets", TRUE)
    /\ (pc = "exit" /\ ~EndedBeforeFetch) => CallCount("list_secrets") = 1
    /\ (stdout # <<>> /\ exit # "displayed") => CallCount("list_secrets") = 1
    /\ exit \in {"usage", "displayed"} => (calls = <<>> /\ config = NoConfig)
    /\ CallCount("list_namespaces") <= 1
    /\ CallCount("list_namespaces") = 1 =>
          /\ idx > Len(secrets)
          /\ RenderedEntries = 0
          /\ CallCount("list_secrets") = 1
    /\ RenderedEntries > 0 => CallCount("list_namespaces") = 0
    /\ \A i \in DOMAIN calls :
          ~calls[i].ok => (i = Len(calls) /\ pc = "exit" /\ exit = "error")
    /\ pc = "exit" <=> exit # "running"
    /\ pc # "exit" => (ENABLED Next /\ StepsLeft > 0)
    /\ pc = "exit" => \/ CompletedWithEntries
                      \/ CompletedWithDiagnostic
                      \/ Aborted
                      \/ Displayed

(* What holds of every step of the run: it leaves fewer steps to take, the *)
(* stage never goes back, the                                              *)
(* two lists are walked forward, calls and output are only added to, one   *)
(* call at most a step, and a secret is fetched before anything is         *)
(* printed.                                                                *)
C12_Step ==
    /\ StepsLeft' < StepsLeft
    /\ Stage' >= Stage
    /\ Stage = 3 => Stage' # 2
    /\ idx' >= idx /\ nidx' >= nidx
    /\ Stage >= 2 => secrets' = secrets
    /\ IsPrefix(calls, calls') /\ Len(calls') <= Len(calls) + 1
    /\ IsPrefix(stdout, stdout')
    /\ CallCount("list_secrets")' > CallCount("list_secrets") => stdout = <<>>
    /\ CallCount("list_namespaces")' > CallCount("list_namespaces")
          => (idx > Len(secrets) /\ found_secrets = 0)

(* C12, amended: the run is a linear state machine, Fetch, then            *)
(* Filter/Render (repeated), then the optional Diagnose, with no retry and *)
(* no backtracking.  The call that lists the secrets is made at most once, *)
(* and exactly once, before any output, in every run that comes to the     *)
(* fetch (the command line accepted, the client built); a run that ends in *)
(* Config::parse() makes no call, and prints the help or the version when  *)
(* asked to; the call that lists the namespaces is made at most once, only *)
(* after every fetched secret is done, and never when an entry was         *)
(* rendered; a failed call ends the run and is never made again; and every *)
(* run reaches a terminal state (completed with entries shown, completed   *)
(* with none and a diagnostic, aborted with an error, or ended with the    *)
(* help or the version displayed): until then a step is always possible,   *)
(* and each step lowers a bound on the steps left.                         *)
C12_LinearRun ==
    /\ []C12_State
    /\ [][C12_Step]_vars

(* C12's case: a run through all three stages, with a secret filtered out  *)
(* and one shown without entries, that ended with the diagnostic after two *)
(* namespaces were scanned.                                                *)
C12_Witness ==
    /\ pc = "exit"
    /\ CompletedWithDiagnostic
    /\ Len(secrets) = 2
    /\ Len(LinesOfKind(stdout, {"header"})) = 1
    /\ Len(namespaces) = 2 /\ nidx = 2
    /\ Len(calls) = 4

====
